---- MODULE Spec2Model ----
(***************************************************************************)
(* Electronic Use & Carbon Footprint Survey: the footprint estimation      *)
(* engine (the `results` useMemo), the currency converter (kgToInr) and    *)
(* the export (downloadJSON) of the three variants of SurveySite:          *)
(*   "simple"     src/src/App.js, lines 1-498                              *)
(*   "multiplier" src/src/App.js, lines 499-1189                           *)
(*   "extended"   src/unnamed/part_000                                     *)
(*                                                                         *)
(* JavaScript values are tagged records (string, number, boolean,         *)
(* undefined).  A JavaScript number is an exact rational n/d in lowest     *)
(* terms with d > 0; NaN is the record with d = 0.  Strings are TLA+       *)
(* strings, read character by character with SubSeq.                       *)
(***************************************************************************)
EXTENDS Integers, Sequences, FiniteSets, TLC

VARIABLES variant, form, defaults, results, exported,
          message, webhookUrl, pending, observed, lastOutcome, now

vars == <<variant, form, defaults, results, exported, message, webhookUrl, pending, observed,
          lastOutcome, now>>

(* The state a submission reads or writes, the record of an earlier run of *)
(* the engine, the outcome of the submission started last ("none" before   *)
(* the first, "pending" while its request is in flight) and the            *)
(* millisecond clock                                                       *)
session == <<message, webhookUrl, pending, observed, lastOutcome, now>>

(* Bounds of the exploration *)
MaxDeviceRows == 1   \* the device rows the page exploration fills in
MaxFilled == 3       \* the answers and factors changed from their initial value
MaxDecimals == 6     \* the decimals a printed number may need
MaxNumber == 2       \* the whole numbers typed into a numeric field are 0..MaxNumber
MaxPending == 2      \* the submissions awaiting the reply of the webhook at once
MaxClock == 2        \* the milliseconds the clock advances in a session

----------------------------------------------------------------------------
(* Exact arithmetic on JavaScript numbers                                  *)

Abs(x) == IF x < 0 THEN -x ELSE x

RECURSIVE GCD(_, _)
GCD(a, b) == IF b = 0 THEN a ELSE GCD(b, a % b)

Rat(n, d) ==
  LET g == GCD(Abs(n), d)
  IN [n |-> n \div g, d |-> d \div g]

NaN == [n |-> 0, d |-> 0]
IsNaN(x) == x.d = 0
Whole(k) == [n |-> k, d |-> 1]
Zero == Whole(0)

Mul(a, b) ==
  LET g1 == GCD(Abs(a.n), b.d)
      g2 == GCD(Abs(b.n), a.d)
  IN [n |-> (a.n \div g1) * (b.n \div g2), d |-> (a.d \div g2) * (b.d \div g1)]

Add(a, b) ==
  LET g == GCD(a.d, b.d)
  IN Rat(a.n * (b.d \div g) + b.n * (a.d \div g), (a.d \div g) * b.d)

Neg(a) == [n |-> -a.n, d |-> a.d]
Sub(a, b) == Add(a, Neg(b))
Div(a, k) == Mul(a, [n |-> 1, d |-> k])
Leq(a, b) == LET g == GCD(a.d, b.d) IN a.n * (b.d \div g) <= b.n * (a.d \div g)
Less(a, b) == LET g == GCD(a.d, b.d) IN a.n * (b.d \div g) < b.n * (a.d \div g)
Positive(a) == a.n > 0
Max(a, b) == IF Less(a, b) THEN b ELSE a

(* Math.round: the nearest integer, a tie going towards +Infinity. *)
MathRound(x) == (2 * x.n + x.d) \div (2 * x.d)

(* round(num, decimals = 2) *)
round(num) == Rat(MathRound(Mul(num, Whole(100))), 100)

----------------------------------------------------------------------------
(* JavaScript values and conversions                                       *)

Str(s) == [k |-> "string", s |-> s]
Num(x) == [k |-> "number", x |-> x]
Bool(b) == [k |-> "boolean", b |-> b]
Undefined == [k |-> "undefined"]

Digits == <<"0", "1", "2", "3", "4", "5", "6", "7", "8", "9">>
IsDigit(c) == \E i \in 1..10 : Digits[i] = c
DigitVal(c) == (CHOOSE i \in 1..10 : Digits[i] = c) - 1
CharAt(s, i) == SubSeq(s, i, i)
AllDigits(s) == \A i \in 1..Len(s) : IsDigit(CharAt(s, i))

RECURSIVE DigitsValue(_)
DigitsValue(s) ==
  IF Len(s) = 0 THEN 0
  ELSE 10 * DigitsValue(SubSeq(s, 1, Len(s) - 1)) + DigitVal(CharAt(s, Len(s)))

RECURSIVE Pow10(_)
Pow10(k) == IF k = 0 THEN 1 ELSE 10 * Pow10(k - 1)

(* String.prototype.trim *)
RECURSIVE Trim(_)
Trim(s) ==
  IF Len(s) = 0 THEN s
  ELSE IF CharAt(s, 1) = " " THEN Trim(SubSeq(s, 2, Len(s)))
  ELSE IF CharAt(s, Len(s)) = " " THEN Trim(SubSeq(s, 1, Len(s) - 1))
  ELSE s

(* An unsigned decimal literal: digits, with at most one "." and at least  *)
(* one digit; anything else is NaN.                                        *)
UnsignedLiteral(s) ==
  LET dots == {i \in 1..Len(s) : CharAt(s, i) = "."}
  IN IF dots = {}
     THEN IF Len(s) > 0 /\ AllDigits(s) THEN Whole(DigitsValue(s)) ELSE NaN
     ELSE IF Cardinality(dots) = 1
     THEN LET p == CHOOSE i \in dots : TRUE
              ip == SubSeq(s, 1, p - 1)
              fp == SubSeq(s, p + 1, Len(s))
          IN IF AllDigits(ip) /\ AllDigits(fp) /\ Len(ip) + Len(fp) > 0
             THEN Rat(DigitsValue(ip \o fp), Pow10(Len(fp)))
             ELSE NaN
     ELSE NaN

(* Number(string): white space is trimmed, the empty string is 0, a signed *)
(* decimal literal is its value, any other text is NaN.                    *)
StringToNumber(s) ==
  LET t == Trim(s)
  IN IF Len(t) = 0 THEN Zero
     ELSE IF CharAt(t, 1) = "-"
     THEN LET u == UnsignedLiteral(SubSeq(t, 2, Len(t)))
          IN IF IsNaN(u) THEN NaN ELSE Neg(u)
     ELSE IF CharAt(t, 1) = "+" THEN UnsignedLiteral(SubSeq(t, 2, Len(t)))
     ELSE UnsignedLiteral(t)

(* A conversion that, like parseFloat, accepts the leading digit of a text  *)
(* that is no numeric literal                                              *)
NumberOfPrefix(v) ==
  CASE v.k = "undefined" -> NaN
    [] v.k = "boolean" -> IF v.b THEN Whole(1) ELSE Zero
    [] v.k = "number" -> v.x
    [] v.k = "string" ->
         IF IsNaN(StringToNumber(v.s)) /\ IsDigit(CharAt(Trim(v.s), 1))
         THEN Whole(DigitVal(CharAt(Trim(v.s), 1)))
         ELSE StringToNumber(v.s)

(* Number(value) *)
Number(v) ==
  CASE v.k = "undefined" -> NaN
    [] v.k = "boolean" -> IF v.b THEN Whole(1) ELSE Zero
    [] v.k = "number" -> v.x
    [] v.k = "string" -> StringToNumber(v.s)

(* x || 1 in place of x || 0 *)
OrOne(x) == IF IsNaN(x) \/ x.n = 0 THEN Whole(1) ELSE x

(* x || 0 on a number: NaN and 0 are falsy *)
OrZero(x) == IF IsNaN(x) \/ x.n = 0 THEN Zero ELSE x

(* ToBoolean(value) *)
Truthy(v) ==
  CASE v.k = "undefined" -> FALSE
    [] v.k = "boolean" -> v.b
    [] v.k = "number" -> ~IsNaN(v.x) /\ v.x.n # 0
    [] v.k = "string" -> Len(v.s) > 0

(* value || "" *)
OrEmpty(v) == IF Truthy(v) THEN v ELSE Str("")

(* String.prototype.includes *)
Includes(text, pat) ==
  \E i \in 1..(Len(text) - Len(pat) + 1) : SubSeq(text, i, i + Len(pat) - 1) = pat

(* form.field: a property the object lacks reads as undefined *)
Get(f, name) == IF name \in DOMAIN f THEN f[name] ELSE Undefined

----------------------------------------------------------------------------
(* Emission-factor configurations                                          *)

Variants == {"simple", "multiplier", "extended"}

(* DEFAULTS of the simple and the multiplier variant *)
DEFAULTS ==
  [ gridKgCO2PerKWh |-> Rat(7, 10),
    devicePowerW |->
     (
      "Smartphone" :> 5 @@
      "Laptop" :> 50 @@
      "Tablet" :> 10 @@
      "Desktop" :> 150 @@
      "Smart TV" :> 80 @@
      "Other" :> 30 @@
      "Gaming Console" :> 120 @@
      "Streaming Device" :> 15 @@
      "Smart Home Devices" :> 25 @@
      "Router" :> 10
     ),
    kgCO2PerGB |-> Rat(5, 100),
    inrPerTonneCO2 |-> Whole(2000),
    gbPerStreamingHour |-> Rat(15, 10) ]

(* INDIAN_DEFAULTS of the extended variant *)
INDIAN_DEFAULTS ==
  [ gridKgCO2PerKWh |-> Rat(82, 100),
    devicePowerW |->
     (
      "Smartphone" :> 3 @@
      "Laptop" :> 65 @@
      "Tablet" :> 8 @@
      "Desktop" :> 180 @@
      "Smart TV" :> 100 @@
      "Other" :> 25 @@
      "Gaming Console" :> 150 @@
      "Streaming Device" :> 12 @@
      "Smart Home Devices" :> 15 @@
      "Router" :> 8
     ),
    kgCO2PerGB |-> Rat(65, 1000),
    inrPerTonneCO2 |-> Whole(3000),
    gbPerStreamingHour |->
      [SD |-> Rat(3, 10), HD |-> Rat(12, 10), UHD4K |-> Rat(45, 10), default |-> Rat(12, 10)],
    aiKgCO2PerQuery |->
      [text |-> Rat(1, 10000), image |-> Rat(2, 100), code |-> Rat(2, 10000),
       voice |-> Rat(1, 10000), mixed |-> Rat(5, 1000), default |-> Rat(5, 10000)] ]

BuiltIn(v) == IF v = "extended" THEN INDIAN_DEFAULTS ELSE DEFAULTS

----------------------------------------------------------------------------
(* The form                                                                *)

CommonFields ==
  {
    "age", "gender", "occupation", "customOccupation",
    "schooling", "city", "state", "cityTier",
    "accommodation", "familyIncomeRange", "primaryConnection", "avgDailyInternetHours",
    "totalDevices", "smartphone", "laptop", "tablet",
    "desktop", "smartTV", "otherDevices", "gamingConsole",
    "streamingDevice", "smartHomeDevices", "router", "smartphoneDuration",
    "laptopDuration", "tabletDuration", "desktopDuration", "smartTVDuration",
    "otherDevicesDuration", "gamingConsoleDuration", "streamingDeviceDuration", "smartHomeDevicesDuration",
    "routerDuration", "aiInteractionsPerDay", "aiTypes", "typicalAiSessionMinutes",
    "cloudHoursPerWeek", "streamingAcademicHrsPerWeek", "streamingNonAcademicHrsPerWeek", "largeTransfersPerMonth",
    "accessRenewableAtHome", "estimatedAnnualKgCO2"
  }

MultiplierFields ==
  {
    "smartphoneAge", "laptopAge", "tabletAge", "desktopAge",
    "smartTVAge", "otherDevicesAge", "gamingConsoleAge", "streamingDeviceAge",
    "smartHomeDevicesAge", "routerAge", "chargingHabits", "powerSource",
    "renewableEnergyUsage", "solarPanels", "energyEfficientAppliances", "aiUsageTypes"
  }

QuizFields ==
  {
    "quizDataUsage", "quizDeviceLifespan", "quizChargingImpact", "quizStreamingFootprint",
    "quizRenewableEnergy", "quizAIFootprint"
  }

TextFields(v) ==
  CASE v = "simple" -> CommonFields
    [] v = "multiplier" -> CommonFields \cup MultiplierFields
    [] v = "extended" -> CommonFields \cup MultiplierFields \cup QuizFields

FlagFields(v) == IF v = "extended" THEN {"consent"} ELSE {"noDevices", "consent"}

(* useState({...}): every text field '', every flag false *)
InitialForm(v) ==
  [f \in TextFields(v) \cup FlagFields(v) |->
     IF f \in FlagFields(v) THEN Bool(FALSE) ELSE Str("")]

----------------------------------------------------------------------------
(* Device emissions                                                        *)

DeviceData ==
  <<
    [type |-> "Smartphone", count |-> "smartphone", duration |-> "smartphoneDuration"],
    [type |-> "Laptop", count |-> "laptop", duration |-> "laptopDuration"],
    [type |-> "Tablet", count |-> "tablet", duration |-> "tabletDuration"],
    [type |-> "Desktop", count |-> "desktop", duration |-> "desktopDuration"],
    [type |-> "Smart TV", count |-> "smartTV", duration |-> "smartTVDuration"],
    [type |-> "Gaming Console", count |-> "gamingConsole", duration |-> "gamingConsoleDuration"],
    [type |-> "Streaming Device", count |-> "streamingDevice", duration |-> "streamingDeviceDuration"],
    [type |-> "Smart Home Devices", count |-> "smartHomeDevices", duration |-> "smartHomeDevicesDuration"],
    [type |-> "Router", count |-> "router", duration |-> "routerDuration"],
    [type |-> "Other", count |-> "otherDevices", duration |-> "otherDevicesDuration"]
  >>

(* defaults.devicePowerW[type] || 0 *)
PowerW(d, type) ==
  IF type \in DOMAIN d.devicePowerW THEN Whole(d.devicePowerW[type]) ELSE Zero

(* A deviceData entry counted whatever the signs of count and duration *)
BaseEmissionsUnguarded(f, d, e) ==
  LET count == OrZero(Number(Get(f, e.count)))
      duration == OrZero(Number(Get(f, e.duration)))
      powerW == PowerW(d, e.type)
      kwhPerYear == Div(Mul(Mul(powerW, duration), Whole(365)), 1000)
  IN Mul(count, Mul(kwhPerYear, d.gridKgCO2PerKWh))

(* One deviceData entry: count * (kwhPerYear * gridKgCO2PerKWh), or 0      *)
(* unless count > 0 && duration > 0.                                       *)
BaseEmissions(f, d, e) ==
  LET count == OrZero(Number(Get(f, e.count)))
      duration == OrZero(Number(Get(f, e.duration)))
  IN IF Positive(count) /\ Positive(duration)
     THEN LET powerW == PowerW(d, e.type)
              kwhPerYear == Div(Mul(Mul(powerW, duration), Whole(365)), 1000)
          IN Mul(count, Mul(kwhPerYear, d.gridKgCO2PerKWh))
     ELSE Zero

(* A power-source multiplier that leaves an unknown share as it is *)
getPowerSourceMultiplierOrOne(f) ==
  LET v == Get(f, "renewableEnergyUsage")
  IN IF v = Str("0% - All conventional energy") THEN Whole(1)
     ELSE IF v = Str("1-25% - Mostly conventional") THEN Rat(9, 10)
     ELSE IF v = Str("26-50% - Mixed sources") THEN Rat(7, 10)
     ELSE IF v = Str("51-75% - Mostly renewable") THEN Rat(4, 10)
     ELSE IF v = Str("76-100% - All or mostly renewable") THEN Rat(2, 10)
     ELSE Whole(1)

getPowerSourceMultiplier(f) ==
  LET v == Get(f, "renewableEnergyUsage")
  IN IF v = Str("0% - All conventional energy") THEN Whole(1)
     ELSE IF v = Str("1-25% - Mostly conventional") THEN Rat(9, 10)
     ELSE IF v = Str("26-50% - Mixed sources") THEN Rat(7, 10)
     ELSE IF v = Str("51-75% - Mostly renewable") THEN Rat(4, 10)
     ELSE IF v = Str("76-100% - All or mostly renewable") THEN Rat(2, 10)
     ELSE Rat(8, 10)

getChargingMultiplier(f) ==
  LET v == Get(f, "chargingHabits")
  IN IF v = Str("Always keep plugged in") THEN Rat(13, 10)
     ELSE IF v = Str("Charge overnight (8+ hours)") THEN Rat(11, 10)
     ELSE IF v = Str("Charge when needed (1-3 hours)") THEN Whole(1)
     ELSE IF v = Str("Quick charge frequently (15-30 min)") THEN Rat(12, 10)
     ELSE IF v = Str("Battery saver mode user") THEN Rat(8, 10)
     ELSE Whole(1)

(* deviceData.forEach of the simple variant: deviceKg += count * (...) *)
RECURSIVE SumBase(_, _, _)
SumBase(f, d, i) ==
  IF i = 0 THEN Zero
  ELSE Add(SumBase(f, d, i - 1), BaseEmissions(f, d, DeviceData[i]))

(* deviceData.forEach with the two multipliers:                            *)
(* deviceKg += baseEmissions * powerSourceMultiplier * chargingMultiplier  *)
RECURSIVE SumScaled(_, _, _)
SumScaled(f, d, i) ==
  IF i = 0 THEN Zero
  ELSE Add(SumScaled(f, d, i - 1),
           Mul(Mul(BaseEmissions(f, d, DeviceData[i]), getPowerSourceMultiplier(f)),
               getChargingMultiplier(f)))

(* The device sum taken whether or not noDevices is ticked *)
DeviceKgIgnoringFlag(f, d) == SumBase(f, d, Len(DeviceData))

DeviceKgSimple(f, d) ==
  IF ~Truthy(Get(f, "noDevices")) THEN SumBase(f, d, Len(DeviceData)) ELSE Zero

DeviceKgMultiplier(f, d) ==
  IF ~Truthy(Get(f, "noDevices")) THEN SumScaled(f, d, Len(DeviceData)) ELSE Zero

DeviceKgExtended(f, d) == SumScaled(f, d, Len(DeviceData))

----------------------------------------------------------------------------
(* Data, streaming and AI emissions of the simple and multiplier variants  *)

(* A data section that counts the cloud hours, half a gigabyte each *)
DataKgSimpleWithCloud(f, d) ==
  LET academic == OrZero(Number(Get(f, "streamingAcademicHrsPerWeek")))
      nonAcad == OrZero(Number(Get(f, "streamingNonAcademicHrsPerWeek")))
      streamingHoursPerMonth == Mul(Add(academic, nonAcad), Rat(4345, 1000))
      gbFromStreamingPerYear ==
        Mul(Mul(streamingHoursPerMonth, OrZero(d.gbPerStreamingHour)), Whole(12))
      gbFromCloudPerYear ==
        Mul(Mul(OrZero(Number(Get(f, "cloudHoursPerWeek"))), Whole(52)), Rat(5, 10))
      gbFromBigTransfersPerYear ==
        Mul(OrZero(Number(Get(f, "largeTransfersPerMonth"))), Whole(12))
      totalGB == Add(Add(gbFromStreamingPerYear, gbFromCloudPerYear), gbFromBigTransfersPerYear)
  IN Mul(totalGB, d.kgCO2PerGB)

(* A data section that annualizes the weekly hours by 52 *)
DataKgSimpleByWeeks(f, d) ==
  LET academic == OrZero(Number(Get(f, "streamingAcademicHrsPerWeek")))
      nonAcad == OrZero(Number(Get(f, "streamingNonAcademicHrsPerWeek")))
      gbFromStreamingPerYear ==
        Mul(Mul(Add(academic, nonAcad), OrZero(d.gbPerStreamingHour)), Whole(52))
      gbFromBigTransfersPerYear ==
        Mul(OrZero(Number(Get(f, "largeTransfersPerMonth"))), Whole(12))
  IN Mul(Add(gbFromStreamingPerYear, gbFromBigTransfersPerYear), d.kgCO2PerGB)

DataKgSimple(f, d) ==
  LET academic == OrZero(Number(Get(f, "streamingAcademicHrsPerWeek")))
      nonAcad == OrZero(Number(Get(f, "streamingNonAcademicHrsPerWeek")))
      streamingHoursPerMonth == Mul(Add(academic, nonAcad), Rat(4345, 1000))
      gbFromStreamingPerYear ==
        Mul(Mul(streamingHoursPerMonth, OrZero(d.gbPerStreamingHour)), Whole(12))
      gbFromBigTransfersPerYear ==
        Mul(OrZero(Number(Get(f, "largeTransfersPerMonth"))), Whole(12))
      totalGB == Add(gbFromStreamingPerYear, gbFromBigTransfersPerYear)
  IN Mul(totalGB, d.kgCO2PerGB)

AiKgSimple(f) ==
  LET aiInteractions == OrZero(Number(Get(f, "aiInteractionsPerDay")))
      aiMinutes == OrZero(Number(Get(f, "typicalAiSessionMinutes")))
  IN Mul(Mul(Mul(aiInteractions, aiMinutes), Whole(365)), Rat(1, 1000))

----------------------------------------------------------------------------
(* Range parsing of the extended variant: text.includes(pattern), the      *)
(* first matching branch of each if / else-if chain wins.                  *)

AcademicHours(text) ==
  IF Includes(text, "1-5") THEN Whole(3)
  ELSE IF Includes(text, "6-15") THEN Whole(10)
  ELSE IF Includes(text, "16-30") THEN Whole(23)
  ELSE IF Includes(text, "31-50") THEN Whole(40)
  ELSE IF Includes(text, "50+") THEN Whole(65)
  ELSE Zero

EntertainmentHours(text) ==
  IF Includes(text, "1-10") THEN Whole(5)
  ELSE IF Includes(text, "11-25") THEN Whole(18)
  ELSE IF Includes(text, "26-40") THEN Whole(33)
  ELSE IF Includes(text, "41-60") THEN Whole(50)
  ELSE IF Includes(text, "60+") THEN Whole(80)
  ELSE Zero

CloudHours(text) ==
  IF Includes(text, "1-5") THEN Whole(3)
  ELSE IF Includes(text, "6-15") THEN Whole(10)
  ELSE IF Includes(text, "16-30") THEN Whole(23)
  ELSE IF Includes(text, "31-50") THEN Whole(40)
  ELSE IF Includes(text, "50+") THEN Whole(65)
  ELSE Zero

AiInteractionsDaily(text) ==
  IF Includes(text, "1-5") THEN Whole(3)
  ELSE IF Includes(text, "6-15") THEN Whole(10)
  ELSE IF Includes(text, "16-30") THEN Whole(23)
  ELSE IF Includes(text, "31-50") THEN Whole(40)
  ELSE IF Includes(text, "50+") THEN Whole(75)
  ELSE Zero

SessionMinutes(text) ==
  IF Includes(text, "Less than 1") THEN Rat(1, 2)
  ELSE IF Includes(text, "1-5") THEN Whole(3)
  ELSE IF Includes(text, "6-15") THEN Whole(10)
  ELSE IF Includes(text, "16-30") THEN Whole(23)
  ELSE IF Includes(text, "31-60") THEN Whole(45)
  ELSE IF Includes(text, "More than 1 hour") THEN Whole(90)
  ELSE Zero

AiTypeMultiplier(text, d) ==
  IF Includes(text, "Text generation") THEN d.aiKgCO2PerQuery.text
  ELSE IF Includes(text, "Image generation") THEN d.aiKgCO2PerQuery.image
  ELSE IF Includes(text, "Code assistance") THEN d.aiKgCO2PerQuery.code
  ELSE IF Includes(text, "Voice assistants") THEN d.aiKgCO2PerQuery.voice
  ELSE IF Includes(text, "Mixed usage") THEN d.aiKgCO2PerQuery.mixed
  ELSE d.aiKgCO2PerQuery.default

(* The fields read as `form.field || ""` and then sent .includes: a truthy  *)
(* value that is no string has no includes method, and the call throws a   *)
(* TypeError.                                                              *)
RangeFields ==
  { "streamingAcademicHrsPerWeek", "streamingNonAcademicHrsPerWeek", "cloudHoursPerWeek",
    "aiInteractionsPerDay", "typicalAiSessionMinutes", "aiUsageTypes" }

Text(f, name) == OrEmpty(Get(f, name)).s

ThrowsTypeError(f) == \E name \in RangeFields : OrEmpty(Get(f, name)).k # "string"

(* A data section that streams at the 4K rate *)
DataKgExtendedAt4K(f, d) ==
  LET academicHours == AcademicHours(Text(f, "streamingAcademicHrsPerWeek"))
      entertainmentHours == EntertainmentHours(Text(f, "streamingNonAcademicHrsPerWeek"))
      totalStreamingHoursPerWeek == Add(academicHours, entertainmentHours)
      gbFromStreamingPerYear ==
        Mul(Mul(totalStreamingHoursPerWeek, d.gbPerStreamingHour.UHD4K), Whole(52))
      cloudHours == CloudHours(Text(f, "cloudHoursPerWeek"))
      gbFromCloudPerYear == Mul(Mul(cloudHours, Whole(52)), Rat(5, 10))
      gbFromBigTransfersPerYear ==
        Mul(OrZero(Number(Get(f, "largeTransfersPerMonth"))), Whole(12))
      totalGB == Add(Add(gbFromStreamingPerYear, gbFromCloudPerYear), gbFromBigTransfersPerYear)
  IN Mul(totalGB, d.kgCO2PerGB)

DataKgExtended(f, d) ==
  LET academicHours == AcademicHours(Text(f, "streamingAcademicHrsPerWeek"))
      entertainmentHours == EntertainmentHours(Text(f, "streamingNonAcademicHrsPerWeek"))
      totalStreamingHoursPerWeek == Add(academicHours, entertainmentHours)
      gbFromStreamingPerYear ==
        Mul(Mul(totalStreamingHoursPerWeek, d.gbPerStreamingHour.default), Whole(52))
      cloudHours == CloudHours(Text(f, "cloudHoursPerWeek"))
      gbFromCloudPerYear == Mul(Mul(cloudHours, Whole(52)), Rat(5, 10))
      gbFromBigTransfersPerYear ==
        Mul(OrZero(Number(Get(f, "largeTransfersPerMonth"))), Whole(12))
      totalGB == Add(Add(gbFromStreamingPerYear, gbFromCloudPerYear), gbFromBigTransfersPerYear)
  IN Mul(totalGB, d.kgCO2PerGB)

(* An AI section with half a query a minute and no floor of one query *)
AiKgExtendedByHalfMinutes(f, d) ==
  LET aiInteractionsDaily == AiInteractionsDaily(Text(f, "aiInteractionsPerDay"))
      sessionMinutes == SessionMinutes(Text(f, "typicalAiSessionMinutes"))
      aiTypeMultiplier == AiTypeMultiplier(Text(f, "aiUsageTypes"), d)
  IN IF Positive(aiInteractionsDaily) /\ Positive(sessionMinutes)
     THEN LET queriesPerSession == Div(sessionMinutes, 2)
              totalQueriesPerYear ==
                Mul(Mul(aiInteractionsDaily, queriesPerSession), Whole(365))
          IN Mul(totalQueriesPerYear, aiTypeMultiplier)
     ELSE Zero

(* An AI section that asks for positive interactions only *)
AiKgExtendedAnySession(f, d) ==
  LET aiInteractionsDaily == AiInteractionsDaily(Text(f, "aiInteractionsPerDay"))
      sessionMinutes == SessionMinutes(Text(f, "typicalAiSessionMinutes"))
      aiTypeMultiplier == AiTypeMultiplier(Text(f, "aiUsageTypes"), d)
  IN IF Positive(aiInteractionsDaily)
     THEN LET queriesPerSession == Max(Whole(1), Div(sessionMinutes, 2))
              totalQueriesPerYear ==
                Mul(Mul(aiInteractionsDaily, queriesPerSession), Whole(365))
          IN Mul(totalQueriesPerYear, aiTypeMultiplier)
     ELSE Zero

AiKgExtended(f, d) ==
  LET aiInteractionsDaily == AiInteractionsDaily(Text(f, "aiInteractionsPerDay"))
      sessionMinutes == SessionMinutes(Text(f, "typicalAiSessionMinutes"))
      aiTypeMultiplier == AiTypeMultiplier(Text(f, "aiUsageTypes"), d)
  IN IF Positive(aiInteractionsDaily) /\ Positive(sessionMinutes)
     THEN LET queriesPerSession == Max(Whole(1), Div(sessionMinutes, 2))
              totalQueriesPerYear ==
                Mul(Mul(aiInteractionsDaily, queriesPerSession), Whole(365))
          IN Mul(totalQueriesPerYear, aiTypeMultiplier)
     ELSE Zero

----------------------------------------------------------------------------
(* The engine: results = useMemo(() => {...}, [form, defaults])            *)

DeviceKgRaw(v, f, d) ==
  CASE v = "simple" -> DeviceKgSimple(f, d)
    [] v = "multiplier" -> DeviceKgMultiplier(f, d)
    [] v = "extended" -> DeviceKgExtended(f, d)

DataKgRaw(v, f, d) == IF v = "extended" THEN DataKgExtended(f, d) ELSE DataKgSimple(f, d)

AiKgRaw(v, f, d) == IF v = "extended" THEN AiKgExtended(f, d) ELSE AiKgSimple(f)

(* A breakdown whose total is the sum of the rounded parts *)
BreakdownOfRoundedParts(deviceKg, dataKg, aiKg) ==
  [ status |-> "ok",
    deviceKg |-> round(deviceKg),
    dataKg |-> round(dataKg),
    aiKg |-> round(aiKg),
    totalKg |-> Add(Add(round(deviceKg), round(dataKg)), round(aiKg)) ]

(* A breakdown whose total is rounded to one decimal *)
BreakdownWithTotalInTenths(deviceKg, dataKg, aiKg) ==
  [ status |-> "ok",
    deviceKg |-> round(deviceKg),
    dataKg |-> round(dataKg),
    aiKg |-> round(aiKg),
    totalKg |-> Rat(MathRound(Mul(Add(Add(deviceKg, dataKg), aiKg), Whole(10))), 10) ]

(* const totalKg = round(deviceKg + dataKg + aiKg); return {...} *)
Breakdown(deviceKg, dataKg, aiKg) ==
  [ status |-> "ok",
    deviceKg |-> round(deviceKg),
    dataKg |-> round(dataKg),
    aiKg |-> round(aiKg),
    totalKg |-> round(Add(Add(deviceKg, dataKg), aiKg)) ]

(* The useMemo callback ended in an uncaught TypeError *)
Threw == [status |-> "TypeError"]

(* An engine whose AI contribution also depends on the message on display *)
ResultsWithMemory(v, f, d) ==
  IF v = "extended" /\ ThrowsTypeError(f) THEN Threw
  ELSE Breakdown(DeviceKgRaw(v, f, d), DataKgRaw(v, f, d),
                 Add(AiKgRaw(v, f, d), IF message.type = "null" THEN Zero ELSE Whole(1)))

Results(v, f, d) ==
  IF v = "extended" /\ ThrowsTypeError(f) THEN Threw
  ELSE Breakdown(DeviceKgRaw(v, f, d), DataKgRaw(v, f, d), AiKgRaw(v, f, d))

(* A conversion that rounds to one decimal *)
kgToInrCoarse(v, d, kg) ==
  LET tonne == Div(OrZero(kg), 1000)
      price == OrZero(d.inrPerTonneCO2)
      value == IF v = "extended" THEN Mul(Mul(tonne, price), Rat(15, 10)) ELSE Mul(tonne, price)
  IN Rat(MathRound(Mul(value, Whole(10))), 10)

(* A conversion without the social cost of carbon *)
kgToInrAtMarketPrice(v, d, kg) ==
  LET tonne == Div(OrZero(kg), 1000)
      price == OrZero(d.inrPerTonneCO2)
  IN round(Mul(tonne, price))

(* kgToInr: the social-cost multiplier 1.5 is in the extended variant only *)
kgToInr(v, d, kg) ==
  LET tonne == Div(OrZero(kg), 1000)
      price == OrZero(d.inrPerTonneCO2)
  IN IF v = "extended" THEN round(Mul(Mul(tonne, price), Rat(15, 10)))
     ELSE round(Mul(tonne, price))

----------------------------------------------------------------------------
(* The option lists of the range selects, in the order the page lists them *)

AcademicOptions ==
  <<
    "0 - No academic streaming",
    "1-5 hrs - Light (few lectures/courses)",
    "6-15 hrs - Moderate (regular classes)",
    "16-30 hrs - Heavy (full online courses)",
    "31-50 hrs - Very heavy (intensive programs)",
    "50+ hrs - Constant (full-time online)"
  >>

EntertainmentOptions ==
  <<
    "0 - No entertainment streaming",
    "1-10 hrs - Light (occasional shows)",
    "11-25 hrs - Moderate (regular viewing)",
    "26-40 hrs - Heavy (daily streaming)",
    "41-60 hrs - Very heavy (binge watcher)",
    "60+ hrs - Constant (background streaming)"
  >>

CloudOptions ==
  <<
    "0 - Don't use cloud services",
    "1-5 hrs - Light usage (email, basic storage)",
    "6-15 hrs - Moderate usage (Google Drive, Office 365)",
    "16-30 hrs - Heavy usage (video calls, collaboration)",
    "31-50 hrs - Very heavy usage (streaming, gaming)",
    "50+ hrs - Constant usage (work/business)"
  >>

AiInteractionOptions ==
  <<
    "0 - Don't use AI",
    "1-5 times",
    "6-15 times",
    "16-30 times",
    "31-50 times",
    "50+ times"
  >>

AiSessionOptions ==
  <<
    "Less than 1 minute",
    "1-5 minutes",
    "6-15 minutes",
    "16-30 minutes",
    "31-60 minutes",
    "More than 1 hour"
  >>

AiUsageOptions ==
  <<
    "Text generation (ChatGPT, etc.)",
    "Image generation (DALL-E, etc.)",
    "Code assistance (GitHub Copilot, etc.)",
    "Voice assistants (Siri, Alexa, etc.)",
    "Mixed usage (text + image + code)",
    "Other AI tools",
    "Don't use AI"
  >>

RenewableOptions ==
  <<
    "0% - All conventional energy",
    "1-25% - Mostly conventional",
    "26-50% - Mixed sources",
    "51-75% - Mostly renewable",
    "76-100% - All or mostly renewable",
    "Don't know"
  >>

ChargingOptions ==
  <<
    "Charge overnight (8+ hours)",
    "Charge when needed (1-3 hours)",
    "Quick charge frequently (15-30 min)",
    "Always keep plugged in",
    "Battery saver mode user"
  >>

Range(seq) == {seq[i] : i \in 1..Len(seq)}

----------------------------------------------------------------------------
(* Export                                                                  *)

(* A city and state line put together from the untrimmed answers *)
getCityStateUntrimmed(f) ==
  LET c == Text(f, "city")
      s == Text(f, "state")
  IN IF Len(c) > 0 /\ Len(s) > 0 THEN c \o ", " \o s
     ELSE IF Len(c) > 0 THEN c
     ELSE IF Len(s) > 0 THEN s
     ELSE ""

getCityState(f) ==
  LET c == Trim(Text(f, "city"))
      s == Trim(Text(f, "state"))
  IN IF Len(c) > 0 /\ Len(s) > 0 THEN c \o ", " \o s
     ELSE IF Len(c) > 0 THEN c
     ELSE IF Len(s) > 0 THEN s
     ELSE ""

RECURSIVE PadLeft(_, _)
PadLeft(s, k) == IF Len(s) >= k THEN s ELSE PadLeft("0" \o s, k)

(* JSON.stringify of a finite number: its shortest decimal text *)
NumberToString(x) ==
  LET k == CHOOSE i \in 0..MaxDecimals :
             /\ Pow10(i) % x.d = 0
             /\ \A j \in 0..(i - 1) : Pow10(j) % x.d # 0
      scaled == Abs(x.n) * (Pow10(k) \div x.d)
      whole == ToString(scaled \div Pow10(k))
      text == IF k = 0 THEN whole
              ELSE whole \o "." \o PadLeft(ToString(scaled % Pow10(k)), k)
  IN IF x.n < 0 THEN "-" \o text ELSE text

(* JSON.parse(JSON.stringify(value)) of a string, boolean or finite number *)
JsonValue(v) ==
  IF v.k = "number" THEN Num(StringToNumber(NumberToString(v.x))) ELSE v

(* JSON.parse(JSON.stringify(form)): a property whose value is undefined   *)
(* is left out of the text                                                 *)
JsonForm(f) ==
  [name \in {n \in DOMAIN f : f[n].k # "undefined"} |-> JsonValue(f[name])]

JsonResults(r) ==
  [ status |-> r.status,
    deviceKg |-> StringToNumber(NumberToString(r.deviceKg)),
    dataKg |-> StringToNumber(NumberToString(r.dataKg)),
    aiKg |-> StringToNumber(NumberToString(r.aiKg)),
    totalKg |-> StringToNumber(NumberToString(r.totalKg)) ]

(* generateParticipantId: `P${Date.now()}` *)
generateParticipantId == "P" \o ToString(now)

(* The file downloadJSON hands to the browser, as a reader parses it back, *)
(* and the name it is saved under: `survey_${data.participantId}.json`     *)
ExportFile(f, r) ==
  [ done |-> TRUE,
    participantId |-> generateParticipantId,
    timestamp |-> now,
    filename |-> "survey_" \o generateParticipantId \o ".json",
    form |-> JsonForm(f),
    results |-> JsonResults(r),
    cityState |-> getCityState(f) ]

NoDownload == [done |-> FALSE]

----------------------------------------------------------------------------
(* The page: the handlers of SurveySite                                    *)

(* What the exploration types or selects in each field *)
DeviceMenu ==
  {<<DeviceData[i].count, t>> : i \in 1..MaxDeviceRows, t \in {"", "2"}}
    \cup {<<DeviceData[i].duration, t>> : i \in 1..MaxDeviceRows, t \in {"", "4"}}

CommonMenu ==
  {<<"largeTransfersPerMonth", t>> : t \in {"", "1"}} \cup {<<"city", t>> : t \in {"", "Pune"}}

InputMenu ==
  {<<"streamingAcademicHrsPerWeek", t>> : t \in {"", "2"}}
    \cup {<<"aiInteractionsPerDay", t>> : t \in {"", "3"}}
    \cup {<<"typicalAiSessionMinutes", t>> : t \in {"", "10"}}

SelectMenu ==
  {<<"streamingAcademicHrsPerWeek", t>> : t \in {"", AcademicOptions[3]}}
    \cup {<<"aiInteractionsPerDay", t>> : t \in {"", AiInteractionOptions[2]}}
    \cup {<<"typicalAiSessionMinutes", t>> : t \in {"", AiSessionOptions[2]}}
    \cup {<<"renewableEnergyUsage", t>> : t \in {"", RenewableOptions[3]}}
    \cup {<<"chargingHabits", t>> : t \in {"", ChargingOptions[4]}}

UiMenu(v) ==
  DeviceMenu \cup CommonMenu \cup (IF v = "simple" THEN InputMenu ELSE SelectMenu)

FactorKeys == {"gridKgCO2PerKWh", "kgCO2PerGB", "inrPerTonneCO2", "gbPerStreamingHour"}
FactorTexts == {"1", ""}

(* The number of answers and factors that differ from their initial value *)
Filled(v, f, d) ==
  Cardinality({n \in DOMAIN f : f[n] # InitialForm(v)[n]})
    + Cardinality({key \in FactorKeys : d[key] # BuiltIn(v)[key]})

(* An edit that reaches the bodies of the requests not yet answered, as if *)
(* a body were put into text when the reply arrives                        *)
SetFieldThroughRequests(name, text) ==
  /\ <<name, text>> \in UiMenu(variant)
  /\ form[name] # Str(text)
  /\ LET f2 == [form EXCEPT ![name] = Str(text)]
     IN /\ Filled(variant, f2, defaults) <= MaxFilled
        /\ form' = f2
        /\ results' = Results(variant, f2, defaults)
        /\ pending' = [i \in 1..Len(pending) |->
                         [pending[i] EXCEPT !.body.form = JsonForm(f2)]]
  /\ exported' = NoDownload
  /\ UNCHANGED <<variant, defaults, message, webhookUrl, observed, lastOutcome, now>>

(* onChange of an Input or a Select: setForm({ ...form, [name]: v }) *)
SetField(name, text) ==
  /\ <<name, text>> \in UiMenu(variant)
  /\ form[name] # Str(text)
  /\ LET f2 == [form EXCEPT ![name] = Str(text)]
     IN /\ Filled(variant, f2, defaults) <= MaxFilled
        /\ form' = f2
        /\ results' = Results(variant, f2, defaults)
  /\ exported' = NoDownload
  /\ UNCHANGED <<variant, defaults, session>>

(* onChange of a checkbox: setForm({ ...form, [name]: e.target.checked }) *)
SetFlag(name, checked) ==
  /\ name \in FlagFields(variant)
  /\ form[name] # Bool(checked)
  /\ LET f2 == [form EXCEPT ![name] = Bool(checked)]
     IN /\ Filled(variant, f2, defaults) <= MaxFilled
        /\ form' = f2
        /\ results' = Results(variant, f2, defaults)
  /\ exported' = NoDownload
  /\ UNCHANGED <<variant, defaults, session>>

(* An override after which the memoised breakdown is not computed again *)
SetDefaultStale(key, text) ==
  /\ variant # "extended"
  /\ LET d2 == [defaults EXCEPT ![key] = OrZero(Number(Str(text)))]
     IN /\ Filled(variant, form, d2) <= MaxFilled
        /\ defaults' = d2
        /\ results' = results
  /\ exported' = NoDownload
  /\ UNCHANGED <<variant, form, session>>

(* Admin / Emission Factors: setDefaults({ ...defaults, [key]: Number(v) || 0 }) *)
SetDefault(key, text) ==
  /\ variant # "extended"
  /\ LET d2 == [defaults EXCEPT ![key] = OrZero(Number(Str(text)))]
     IN /\ Filled(variant, form, d2) <= MaxFilled
        /\ defaults' = d2
        /\ results' = Results(variant, form, d2)
  /\ exported' = NoDownload
  /\ UNCHANGED <<variant, form, session>>

(* The currency value the page renders: kgToInr(results.totalKg) *)
DisplayedInr == kgToInr(variant, defaults, results.totalKg)

DownloadJSON ==
  /\ exported' = ExportFile(form, results)
  /\ UNCHANGED <<variant, form, defaults, results, session>>

(* useState(null), and the three objects handleSubmit passes to setMessage *)
NoMessage == [type |-> "null", text |-> ""]
ConsentMessage == [type |-> "error", text |-> "Please provide consent to participate."]
FailureMessage == [type |-> "error", text |-> "Failed to submit survey. Please try again."]

SuccessMessage(v) ==
  [ type |-> "success",
    text |-> IF v = "extended"
             THEN "Survey completed successfully! Your carbon footprint has been calculated."
             ELSE "Survey submitted successfully! Your carbon footprint has been calculated." ]

(* The webhook URLs typed into the Admin panel *)
WebhookUrls == {"", "https://your-server.com/webhook"}

NoRun == [done |-> FALSE]

SessionInit ==
  /\ message = NoMessage
  /\ webhookUrl = ""
  /\ pending = <<>>
  /\ observed = NoRun
  /\ lastOutcome = "none"
  /\ now = 0

Init ==
  /\ variant \in Variants
  /\ form = InitialForm(variant)
  /\ defaults = BuiltIn(variant)
  /\ SessionInit
  /\ results = Results(variant, form, defaults)
  /\ exported = NoDownload

Next ==
  \/ \E m \in UiMenu(variant) : SetField(m[1], m[2])
  \/ \E name \in {"noDevices", "consent"}, checked \in BOOLEAN : SetFlag(name, checked)
  \/ \E key \in FactorKeys, text \in FactorTexts : SetDefault(key, text)
  \/ DownloadJSON

Spec == Init /\ [][Next]_vars

----------------------------------------------------------------------------
(* Submission: the Calculate & Submit button, the webhook and its replies  *)

(* onChange of the Webhook URL input: setWebhookUrl(e.target.value) *)
SetWebhookUrl(url) ==
  /\ variant # "extended"
  /\ webhookUrl # url
  /\ webhookUrl' = url
  /\ exported' = NoDownload
  /\ UNCHANGED <<variant, form, defaults, results, message, pending, observed, lastOutcome, now>>

(* The object handleSubmit builds before the try block, as the JSON text   *)
(* of the request body carries it                                          *)
Payload(f, r) ==
  [ participantId |-> generateParticipantId,
    timestamp |-> now,
    form |-> JsonForm(f),
    results |-> JsonResults(r),
    cityState |-> getCityState(f) ]

Remove(seq, i) == SubSeq(seq, 1, i - 1) \o SubSeq(seq, i + 1, Len(seq))

(* The outcome of the submission started last, once request i has settled: *)
(* the requests in flight are in the order of their clicks, so that        *)
(* submission is the last of them for as long as its outcome is pending    *)
Settled(i, outcome) ==
  IF i = Len(pending) /\ lastOutcome = "pending" THEN outcome ELSE lastOutcome

(* A handleSubmit that sends the request before it looks at the consent *)
HandleSubmitPostingFirst ==
  /\ IF variant # "extended" /\ Len(webhookUrl) > 0
     THEN /\ Len(pending) < MaxPending
          /\ pending' = Append(pending, [url |-> webhookUrl, body |-> Payload(form, results)])
          /\ message' = IF Truthy(form["consent"]) THEN message ELSE ConsentMessage
          /\ lastOutcome' = "pending"
     ELSE /\ message' = IF Truthy(form["consent"]) THEN SuccessMessage(variant)
                        ELSE ConsentMessage
          /\ pending' = pending
          /\ lastOutcome' = IF Truthy(form["consent"]) THEN "success" ELSE lastOutcome
  /\ exported' = NoDownload
  /\ UNCHANGED <<variant, form, defaults, results, webhookUrl, observed, now>>

(* A handleSubmit without the consent check *)
HandleSubmitUnchecked ==
  /\ IF variant # "extended" /\ Len(webhookUrl) > 0
     THEN /\ Len(pending) < MaxPending
          /\ pending' = Append(pending, [url |-> webhookUrl, body |-> Payload(form, results)])
          /\ message' = message
          /\ lastOutcome' = "pending"
     ELSE message' = SuccessMessage(variant) /\ pending' = pending /\ lastOutcome' = "success"
  /\ exported' = NoDownload
  /\ UNCHANGED <<variant, form, defaults, results, webhookUrl, observed, now>>

(* handleSubmit up to its first await, or to its end when nothing is       *)
(* awaited: the consent check, then fetch(webhookUrl, ...) when a webhook  *)
(* URL is set, else the success message                                    *)
HandleSubmit ==
  /\ IF ~Truthy(form["consent"])
     THEN message' = ConsentMessage /\ pending' = pending /\ lastOutcome' = lastOutcome
     ELSE IF variant # "extended" /\ Len(webhookUrl) > 0
     THEN /\ Len(pending) < MaxPending
          /\ pending' = Append(pending, [url |-> webhookUrl, body |-> Payload(form, results)])
          /\ message' = message
          /\ lastOutcome' = "pending"
     ELSE message' = SuccessMessage(variant) /\ pending' = pending /\ lastOutcome' = "success"
  /\ exported' = NoDownload
  /\ UNCHANGED <<variant, form, defaults, results, webhookUrl, observed, now>>

(* A handleSubmit that empties the form once the submission has succeeded  *)
FetchResolvedResetting(i) ==
  /\ i \in 1..Len(pending)
  /\ pending' = Remove(pending, i)
  /\ message' = SuccessMessage(variant)
  /\ form' = InitialForm(variant)
  /\ results' = Results(variant, form', defaults)
  /\ lastOutcome' = Settled(i, "success")
  /\ exported' = NoDownload
  /\ UNCHANGED <<variant, defaults, webhookUrl, observed, now>>

(* The promise of fetch fulfils (with a response of any status): the       *)
(* awaiting handleSubmit resumes after the if and sets the success message *)
FetchResolved(i) ==
  /\ i \in 1..Len(pending)
  /\ pending' = Remove(pending, i)
  /\ message' = SuccessMessage(variant)
  /\ lastOutcome' = Settled(i, "success")
  /\ exported' = NoDownload
  /\ UNCHANGED <<variant, form, defaults, results, webhookUrl, observed, now>>

(* A handleSubmit without the catch block: the rejection is followed by    *)
(* the success message                                                     *)
FetchRejectedUncaught(i) ==
  /\ i \in 1..Len(pending)
  /\ pending' = Remove(pending, i)
  /\ message' = SuccessMessage(variant)
  /\ lastOutcome' = Settled(i, "failure")
  /\ exported' = NoDownload
  /\ UNCHANGED <<variant, form, defaults, results, webhookUrl, observed, now>>

(* The promise of fetch rejects: the awaiting handleSubmit resumes in its  *)
(* catch block                                                             *)
FetchRejected(i) ==
  /\ i \in 1..Len(pending)
  /\ pending' = Remove(pending, i)
  /\ message' = FailureMessage
  /\ lastOutcome' = Settled(i, "failure")
  /\ exported' = NoDownload
  /\ UNCHANGED <<variant, form, defaults, results, webhookUrl, observed, now>>

(* A run of the engine is put on record, its inputs with its result, to be *)
(* compared with later runs                                                *)
Observe ==
  /\ observed = NoRun
  /\ observed' = [ done |-> TRUE, form |-> form, defaults |-> defaults, results |-> results,
                    message |-> message ]
  /\ UNCHANGED <<variant, form, defaults, results, exported, message, webhookUrl, pending,
               lastOutcome, now>>

(* The edits explored next to submissions *)
SubmitMenu == {<<"largeTransfersPerMonth", t>> : t \in {"", "1"}}

SubmitFactorKeys == {"kgCO2PerGB", "inrPerTonneCO2"}

SubmitNext ==
  \/ \E m \in SubmitMenu : SetField(m[1], m[2])
  \/ \E checked \in BOOLEAN : SetFlag("consent", checked)
  \/ \E key \in SubmitFactorKeys : SetDefault(key, "1")
  \/ \E url \in WebhookUrls : SetWebhookUrl(url)
  \/ HandleSubmit
  \/ \E i \in 1..Len(pending) : FetchResolved(i)
  \/ \E i \in 1..Len(pending) : FetchRejected(i)
  \/ DownloadJSON

SubmitSpec == Init /\ [][SubmitNext]_vars

(* The page with one submission at a time, and one run of the engine put   *)
(* on record                                                               *)
RerunNext ==
  \/ \E m \in SubmitMenu : SetField(m[1], m[2])
  \/ \E checked \in BOOLEAN : SetFlag("consent", checked)
  \/ SetDefault("kgCO2PerGB", "1")
  \/ \E url \in WebhookUrls : SetWebhookUrl(url)
  \/ pending = <<>> /\ HandleSubmit
  \/ FetchResolved(1)
  \/ FetchRejected(1)
  \/ DownloadJSON
  \/ Observe

RerunSpec == Init /\ [][RerunNext]_vars

(* The millisecond clock Date.now() reads moves on *)
Tick ==
  /\ now < MaxClock
  /\ now' = now + 1
  /\ UNCHANGED <<variant, form, defaults, results, exported, message, webhookUrl, pending,
                 observed, lastOutcome>>

(* The page with submissions and downloads while the clock runs *)
ClockNext ==
  \/ \E checked \in BOOLEAN : SetFlag("consent", checked)
  \/ \E url \in WebhookUrls : SetWebhookUrl(url)
  \/ HandleSubmit
  \/ \E i \in 1..Len(pending) : FetchResolved(i)
  \/ \E i \in 1..Len(pending) : FetchRejected(i)
  \/ DownloadJSON
  \/ Tick

ClockSpec == Init /\ [][ClockNext]_vars

----------------------------------------------------------------------------
(* The engine on its own: a survey response and a configuration are drawn  *)
(* from bounded sets and the engine is applied to them.                    *)

With(f, name, v) == [f EXCEPT ![name] = v]

NotComputed == [status |-> "pending"]

(* Raw values of a numeric field: absent, a boolean, a number, and texts   *)
NumericInputs ==
  {Undefined, Bool(TRUE), Num(Whole(2)), Str(""), Str("abc"), Str("4h"), Str("-1"), Str("1.5")}
    \cup {Str(ToString(i)) : i \in 0..MaxNumber}

HourInputs == {Undefined, Str(""), Str("-1"), Str("1.5"), Str("1"), Str("4")}

(* Raw values of a range select: its options, nothing, and values that are *)
(* no strings                                                              *)
OptionInputs(options) == {Str(o) : o \in Range(options)} \cup {Str("")}

RangeInputs(options) ==
  OptionInputs(options) \cup {Undefined, Bool(TRUE), Bool(FALSE), Num(Whole(5)), Num(Zero)}

DeviceForms(v) ==
  {With(With(InitialForm(v), DeviceData[i].count, cv), DeviceData[i].duration, dv) :
     i \in 1..Len(DeviceData), cv \in NumericInputs, dv \in HourInputs}

NoDevicesForms(v) ==
  IF v = "extended" THEN {}
  ELSE {With(With(With(InitialForm(v), DeviceData[i].count, Str("2")),
                  DeviceData[i].duration, Str("4")), "noDevices", Bool(TRUE)) :
          i \in 1..Len(DeviceData)}

MultiplierForms(v) ==
  IF v = "simple" THEN {}
  ELSE {With(With(With(With(InitialForm(v), DeviceData[i].count, Str("1")),
                       DeviceData[i].duration, Str("4")),
                  "renewableEnergyUsage", r), "chargingHabits", ch) :
          i \in 1..MaxDeviceRows,
          r \in OptionInputs(RenewableOptions), ch \in OptionInputs(ChargingOptions)}

StreamForms(v) ==
  IF v = "extended"
  THEN {With(With(InitialForm(v), "streamingAcademicHrsPerWeek", s1),
             "streamingNonAcademicHrsPerWeek", s2) :
          s1 \in RangeInputs(AcademicOptions), s2 \in OptionInputs(EntertainmentOptions)}
  ELSE {With(With(InitialForm(v), "streamingAcademicHrsPerWeek", s1),
             "streamingNonAcademicHrsPerWeek", s2) :
          s1 \in NumericInputs, s2 \in {Str(""), Str("1"), Str("-1")}}

CloudForms(v) ==
  IF v = "extended"
  THEN {With(With(InitialForm(v), "cloudHoursPerWeek", c), "largeTransfersPerMonth", t) :
          c \in RangeInputs(CloudOptions), t \in NumericInputs}
  ELSE {With(With(InitialForm(v), "cloudHoursPerWeek", c), "largeTransfersPerMonth", t) :
          c \in {Str(""), Str("5")}, t \in NumericInputs}

AiForms(v) ==
  IF v = "extended"
  THEN {With(With(With(InitialForm(v), "aiInteractionsPerDay", a1),
                  "typicalAiSessionMinutes", a2), "aiUsageTypes", a3) :
          a1 \in RangeInputs(AiInteractionOptions), a2 \in OptionInputs(AiSessionOptions),
          a3 \in {Str(""), Str(AiUsageOptions[1]), Str(AiUsageOptions[6])}}
       \cup
       {With(With(With(InitialForm(v), "aiInteractionsPerDay", Str(AiInteractionOptions[2])),
                  "typicalAiSessionMinutes", a2), "aiUsageTypes", a3) :
          a2 \in RangeInputs(AiSessionOptions), a3 \in RangeInputs(AiUsageOptions)}
  ELSE {With(With(InitialForm(v), "aiInteractionsPerDay", a1), "typicalAiSessionMinutes", a2) :
          a1 \in NumericInputs, a2 \in NumericInputs}

(* Responses with a device, data and AI usage at once *)
MixedForms(v) ==
  LET devices ==
        {With(With(InitialForm(v), "smartphone", cv), "smartphoneDuration", dv) :
           cv \in {Str("1"), Str("2")}, dv \in {Str("1"), Str("4")}}
      transfers == {With(f, "largeTransfersPerMonth", t) : f \in devices, t \in {Str(""), Str("1")}}
  IN IF v = "extended"
     THEN {With(With(With(f, "streamingAcademicHrsPerWeek", s1), "aiInteractionsPerDay", a1),
                "typicalAiSessionMinutes", a2) :
             f \in transfers,
             s1 \in {Str(""), Str(AcademicOptions[2])},
             a1 \in {Str(""), Str(AiInteractionOptions[3])},
             a2 \in {Str(""), Str(AiSessionOptions[1]), Str(AiSessionOptions[3])}}
     ELSE {With(With(With(f, "streamingAcademicHrsPerWeek", s1), "aiInteractionsPerDay", a1),
                "typicalAiSessionMinutes", a2) :
             f \in transfers,
             s1 \in {Str(""), Str("1")},
             a1 \in {Str(""), Str("1"), Str("3")},
             a2 \in {Str(""), Str("1")}}

(* The configurations the Admin / Emission Factors panel can set: each      *)
(* factor is Number(text) || 0 of a typed text                              *)
OverrideTexts == {"-1", "1", "1500", ""}

Overrides(v) ==
  IF v = "extended" THEN {}
  ELSE {[BuiltIn(v) EXCEPT ![key] = OrZero(Number(Str(t)))] :
          key \in FactorKeys, t \in OverrideTexts} \ {BuiltIn(v)}

EngineInputs(v) ==
  {[form |-> f, defaults |-> BuiltIn(v)] :
     f \in DeviceForms(v) \cup NoDevicesForms(v) \cup MultiplierForms(v) \cup StreamForms(v)
             \cup CloudForms(v) \cup AiForms(v) \cup MixedForms(v)}
    \cup {[form |-> f, defaults |-> d] : f \in MixedForms(v), d \in Overrides(v)}

EngineInit ==
  /\ variant \in Variants
  /\ \E in \in EngineInputs(variant) : form = in.form /\ defaults = in.defaults
  /\ results = NotComputed
  /\ exported = NoDownload
  /\ SessionInit

(* One run of the useMemo callback *)
Compute ==
  /\ results = NotComputed
  /\ results' = Results(variant, form, defaults)
  /\ UNCHANGED <<variant, form, defaults, exported, session>>

EngineNext == Compute

EngineSpec == EngineInit /\ [][EngineNext]_vars

----------------------------------------------------------------------------
(* The export on its own: a city is typed, a state is selected, and the    *)
(* file is downloaded.                                                     *)

(* What a respondent types in the City input *)
CityTexts == {"", " ", "Pune", " Pune ", "New Delhi", "Pune,", ", Pune"}

(* Options of the State select, and no selection *)
StateTexts == {"", "Goa", "Tamil Nadu"}

CityForms(v) ==
  {With(With(InitialForm(v), "city", Str(c)), "state", Str(s)) :
     c \in CityTexts, s \in StateTexts}

ExportInit ==
  /\ variant \in Variants
  /\ form \in CityForms(variant)
  /\ defaults = BuiltIn(variant)
  /\ SessionInit
  /\ results = Results(variant, form, defaults)
  /\ exported = NoDownload

ExportNext == DownloadJSON

ExportSpec == ExportInit /\ [][ExportNext]_vars

----------------------------------------------------------------------------
(* Properties of the engine                                                *)

Computed == results.status = "ok"

RawTotal(v, f, d) == Add(Add(DeviceKgRaw(v, f, d), DataKgRaw(v, f, d)), AiKgRaw(v, f, d))

(* r is x rounded half-up to two decimals: r is a whole number of          *)
(* hundredths and x - 0.005 < r <= x + 0.005                               *)
IsHalfUp(r, x) ==
  /\ 100 % r.d = 0
  /\ Less(Sub(x, Rat(1, 200)), r)
  /\ Leq(r, Add(x, Rat(1, 200)))

(* C1: in every breakdown the engine returns, totalKg is the unrounded sum *)
(* of the three contributions rounded once, half-up to two decimals, and   *)
(* deviceKg, dataKg and aiKg are each their own unrounded value rounded    *)
(* half-up to two decimals.                                                *)
C1_RoundedOnce ==
  Computed =>
    /\ IsHalfUp(results.totalKg, RawTotal(variant, form, defaults))
    /\ IsHalfUp(results.deviceKg, DeviceKgRaw(variant, form, defaults))
    /\ IsHalfUp(results.dataKg, DataKgRaw(variant, form, defaults))
    /\ IsHalfUp(results.aiKg, AiKgRaw(variant, form, defaults))

(* A breakdown whose total differs from the sum of its rounded parts, with *)
(* no part already a whole number of hundredths                            *)
C1_Witness ==
  /\ Computed
  /\ results.totalKg # Add(Add(results.deviceKg, results.dataKg), results.aiKg)
  /\ results.deviceKg # DeviceKgRaw(variant, form, defaults)
  /\ results.aiKg # AiKgRaw(variant, form, defaults)

NonNegative(x) == x.n >= 0

(* C2: with the built-in configuration, deviceKg, dataKg and aiKg of every *)
(* breakdown are non-negative, whatever the response holds, negative       *)
(* numbers in numeric fields included.                                     *)
C2_NonNegative ==
  (Computed /\ defaults = BuiltIn(variant)) =>
    /\ NonNegative(results.deviceKg)
    /\ NonNegative(results.dataKg)
    /\ NonNegative(results.aiKg)

(* The only non-empty field is largeTransfersPerMonth = "-1", and dataKg   *)
(* is below zero                                                           *)
C2_NegativeTransfers ==
  /\ Computed
  /\ defaults = BuiltIn(variant)
  /\ form = With(InitialForm(variant), "largeTransfersPerMonth", Str("-1"))
  /\ ~NonNegative(results.dataKg)

(* C3: the engine never throws: whatever strings, numbers, booleans or     *)
(* absent values the fields hold, the computation returns a breakdown.     *)
C3_NeverThrows == results # NotComputed => Computed

(* A categorical field holds the number 5 or the boolean true and the      *)
(* callback ended in a TypeError                                           *)
C3_ThrowOnNonString ==
  /\ results = Threw
  /\ \E name \in RangeFields : form[name] \in {Num(Whole(5)), Bool(TRUE)}

(* The fields the engine reads with Number(...) || 0 *)
NumericFields(v) ==
  {DeviceData[i].count : i \in 1..Len(DeviceData)}
    \cup {DeviceData[i].duration : i \in 1..Len(DeviceData)}
    \cup {"largeTransfersPerMonth"}
    \cup (IF v = "extended" THEN {}
          ELSE { "streamingAcademicHrsPerWeek", "streamingNonAcademicHrsPerWeek",
                 "aiInteractionsPerDay", "typicalAiSessionMinutes" })

NonNumericTexts == {"abc", "4h"}

(* absent, the empty string, or text that is no number *)
Unparseable(v) == v = Undefined \/ v = Str("") \/ (v.k = "string" /\ v.s \in NonNumericTexts)

(* C4: a numeric field that is absent, empty or holds non-numeric text     *)
(* gives the same outcome as the number 0 in that field, all other fields  *)
(* and the configuration fixed.                                            *)
C4_UnparseableIsZero ==
  results # NotComputed =>
    \A name \in NumericFields(variant) :
      Unparseable(form[name]) =>
        results = Results(variant, With(form, name, Num(Zero)), defaults)

(* A breakdown was computed although a device count next to four daily     *)
(* hours, the bulk transfers, or (simple variants) the AI interactions     *)
(* next to a positive session length hold non-numeric text                 *)
C4_Witness ==
  /\ Computed
  /\ \/ \E i \in 1..Len(DeviceData) :
          /\ form[DeviceData[i].count].k = "string"
          /\ form[DeviceData[i].count].s \in NonNumericTexts
          /\ form[DeviceData[i].duration] = Str("4")
     \/ /\ variant # "extended"
        /\ form["aiInteractionsPerDay"] = Str("4h")
        /\ form["typicalAiSessionMinutes"] = Str("2")
  /\ results.totalKg = Zero

ZeroInputs == {Undefined, Str(""), Str("0"), Num(Zero), Bool(FALSE)}

(* No device count or hours, no streaming, cloud or bulk transfer, no AI   *)
AllZero(v, f) ==
  /\ \A name \in NumericFields(v) : f[name] \in ZeroInputs
  /\ v = "extended" =>
       /\ f["streamingAcademicHrsPerWeek"] \in ZeroInputs \cup {Str(AcademicOptions[1])}
       /\ f["streamingNonAcademicHrsPerWeek"] \in ZeroInputs \cup {Str(EntertainmentOptions[1])}
       /\ f["cloudHoursPerWeek"] \in ZeroInputs \cup {Str(CloudOptions[1])}
       /\ f["aiInteractionsPerDay"] \in ZeroInputs \cup {Str(AiInteractionOptions[1])}
       /\ f["typicalAiSessionMinutes"] \in ZeroInputs

(* C5: for all-zero input the breakdown is deviceKg = dataKg = aiKg =      *)
(* totalKg = 0 in every variant.                                           *)
C5_AllZero ==
  (results # NotComputed /\ AllZero(variant, form)) =>
    /\ Computed
    /\ results.deviceKg = Zero
    /\ results.dataKg = Zero
    /\ results.aiKg = Zero
    /\ results.totalKg = Zero

(* The breakdown of the initial form has been computed *)
C5_Witness == results # NotComputed /\ form = InitialForm(variant)

----------------------------------------------------------------------------
(* C6: where the form has the noDevices flag, deviceKg = 0 whenever the    *)
(* flag is true, whatever the device counts, hours, power-source and       *)
(* charging answers and the configuration, in every state the page reaches *)
(* by edits.                                                               *)
C6_NoDevicesIsZero ==
  (variant # "extended" /\ form["noDevices"] = Bool(TRUE)) => results.deviceKg = Zero

(* noDevices is ticked while the form holds two smartphones used four      *)
(* hours a day                                                             *)
C6_Witness ==
  /\ variant # "extended"
  /\ form["noDevices"] = Bool(TRUE)
  /\ form["smartphone"] = Str("2")
  /\ form["smartphoneDuration"] = Str("4")
  /\ results.deviceKg = Zero

(* The count or daily hours a device field is raised to *)
RaisedTo == Str("3")

(* C7: with all other fields and the configuration fixed, raising a device *)
(* count or a device's daily hours never lowers the unrounded device       *)
(* contribution, nor deviceKg.                                             *)
C7_Monotonic ==
  Computed =>
    \A name \in {DeviceData[i].count : i \in 1..Len(DeviceData)}
                  \cup {DeviceData[i].duration : i \in 1..Len(DeviceData)} :
      Leq(OrZero(Number(form[name])), Number(RaisedTo)) =>
        LET raised == With(form, name, RaisedTo)
        IN /\ Leq(DeviceKgRaw(variant, form, defaults), DeviceKgRaw(variant, raised, defaults))
           /\ Leq(results.deviceKg, Results(variant, raised, defaults).deviceKg)

(* The grid intensity was overridden with -1, and a third smartphone       *)
(* lowers deviceKg                                                         *)
C7_NegativeGrid ==
  /\ Computed
  /\ defaults.gridKgCO2PerKWh = Whole(-1)
  /\ Less(Results(variant, With(form, "smartphone", RaisedTo), defaults).deviceKg,
          results.deviceKg)

Double(x) == Mul(Whole(2), x)

(* C8: kgToInr(2 * totalKg) = 2 * kgToInr(totalKg) for every totalKg the   *)
(* engine outputs, the carbon price and the multiplier fixed.              *)
C8_Linear ==
  Computed =>
    kgToInr(variant, defaults, Double(results.totalKg))
      = Double(kgToInr(variant, defaults, results.totalKg))

(* C8, as it holds: kgToInr(2 * totalKg) and 2 * kgToInr(totalKg) differ   *)
(* by at most 0.01, the rounding of the converted value.                   *)
C8_LinearUpToRounding ==
  Computed =>
    LET twice == kgToInr(variant, defaults, Double(results.totalKg))
        doubled == Double(kgToInr(variant, defaults, results.totalKg))
    IN /\ Leq(Sub(twice, doubled), Rat(1, 100))
       /\ Leq(Sub(doubled, twice), Rat(1, 100))

(* A total whose converted value is rounded under the built-in carbon      *)
(* price, so that doubling the total does not double the converted value   *)
C8_Witness ==
  /\ Computed
  /\ defaults = BuiltIn(variant)
  /\ kgToInr(variant, defaults, Double(results.totalKg))
       # Double(kgToInr(variant, defaults, results.totalKg))

(* The midpoints of the options, in the order of the option lists *)
HoursMidpoints == <<Zero, Whole(3), Whole(10), Whole(23), Whole(40), Whole(65)>>
EntertainmentMidpoints == <<Zero, Whole(5), Whole(18), Whole(33), Whole(50), Whole(80)>>
AiInteractionMidpoints == <<Zero, Whole(3), Whole(10), Whole(23), Whole(40), Whole(75)>>
AiSessionMidpoints == <<Rat(1, 2), Whole(3), Whole(10), Whole(23), Whole(45), Whole(90)>>

(* C9: in the extended variant every option of a range select resolves to  *)
(* the midpoint of its own range.                                          *)
C9_OwnMidpoint ==
  (variant = "extended" /\ Computed) =>
    \A i \in 1..6 :
      /\ form["streamingAcademicHrsPerWeek"] = Str(AcademicOptions[i])
           => AcademicHours(Text(form, "streamingAcademicHrsPerWeek")) = HoursMidpoints[i]
      /\ form["cloudHoursPerWeek"] = Str(CloudOptions[i])
           => CloudHours(Text(form, "cloudHoursPerWeek")) = HoursMidpoints[i]
      /\ form["streamingNonAcademicHrsPerWeek"] = Str(EntertainmentOptions[i])
           => EntertainmentHours(Text(form, "streamingNonAcademicHrsPerWeek"))
                = EntertainmentMidpoints[i]
      /\ form["aiInteractionsPerDay"] = Str(AiInteractionOptions[i])
           => AiInteractionsDaily(Text(form, "aiInteractionsPerDay")) = AiInteractionMidpoints[i]
      /\ form["typicalAiSessionMinutes"] = Str(AiSessionOptions[i])
           => SessionMinutes(Text(form, "typicalAiSessionMinutes")) = AiSessionMidpoints[i]

(* The 31-50 hours option of the cloud select is read as 3 hours a week:   *)
(* dataKg is that of 78 GB a year                                          *)
C9_VeryHeavyReadAsLight ==
  /\ variant = "extended"
  /\ form = With(InitialForm(variant), "cloudHoursPerWeek", Str(CloudOptions[5]))
  /\ Computed
  /\ results.dataKg = round(Mul(Whole(78), defaults.kgCO2PerGB))

(* C10: the form in an exported file is the form at the time of the export *)
(* and the engine, run on the form in the file, returns the results in the *)
(* file.                                                                   *)
C10_RoundTrip ==
  exported.done =>
    /\ exported.form = form
    /\ Results(variant, exported.form, BuiltIn(variant)) = exported.results

(* A file exported after an emission factor was overridden, whose results  *)
(* the engine does not return for the form in the file                     *)
C10_ExportAfterOverride ==
  /\ exported.done
  /\ defaults # BuiltIn(variant)
  /\ exported.form = form
  /\ Results(variant, exported.form, BuiltIn(variant)) # exported.results
  /\ Results(variant, exported.form, defaults) = exported.results

----------------------------------------------------------------------------
(* Properties of the page                                                  *)

C12_ConsentRequired ==
  [][(HandleSubmit /\ ~Truthy(form["consent"])) =>
       /\ message' = ConsentMessage
       /\ message'.type = "error"
       /\ pending' = pending
       /\ results' = results
       /\ results' = Results(variant', form', defaults')]_vars

(* The consent message is on display, consent is not given, and the        *)
(* breakdown of the twelve gigabytes a year of bulk transfer is shown      *)
C12_Witness ==
  /\ message = ConsentMessage
  /\ form["consent"] = Bool(FALSE)
  /\ form["largeTransfersPerMonth"] = Str("1")
  /\ results.status = "ok"
  /\ results.dataKg # Zero

(* C13: when the request of a consented submission with a webhook URL      *)
(* fails, the failure is caught: the message becomes 'Failed to submit     *)
(* survey. Please try again.', of type error, and not the success message; *)
(* the breakdown is kept.                                                  *)
C13_FailureReported ==
  [][(\E i \in 1..Len(pending) : FetchRejected(i)) =>
       /\ message' = FailureMessage
       /\ message' # SuccessMessage(variant)
       /\ message' # ConsentMessage
       /\ results' = results]_vars

(* A request sent with consent given and a webhook URL set was rejected:   *)
(* the failure message is on display and the breakdown is still there      *)
C13_Witness ==
  /\ message = FailureMessage
  /\ pending = <<>>
  /\ form["consent"] = Bool(TRUE)
  /\ Len(webhookUrl) > 0
  /\ results.status = "ok"

(* A step of handleSubmit: the click, or the resumption after the await *)
SubmitStep ==
  \/ HandleSubmit
  \/ \E i \in 1..Len(pending) : FetchResolved(i)
  \/ \E i \in 1..Len(pending) : FetchRejected(i)

(* C14: handleSubmit, in each of its outcomes, leaves the form, the        *)
(* configuration and the breakdown unchanged and changes no state but the  *)
(* message; downloadJSON changes no state of the application.              *)
C14_Frame ==
  [][/\ SubmitStep => UNCHANGED <<form, defaults, results, webhookUrl>>
     /\ DownloadJSON => UNCHANGED <<form, defaults, results, webhookUrl, message, pending>>]_vars

(* A file was downloaded after a submission over the webhook succeeded,    *)
(* and the form, the overridden factor and the breakdown are still there   *)
C14_Witness ==
  /\ exported.done
  /\ message = SuccessMessage(variant)
  /\ Len(webhookUrl) > 0
  /\ form["largeTransfersPerMonth"] = Str("1")
  /\ defaults # BuiltIn(variant)
  /\ results = Results(variant, form, defaults)
  /\ results.dataKg # Zero

(* C15: in every reachable state, also while a submission awaits its       *)
(* reply, the breakdown on display is the engine's result for the current  *)
(* form and configuration, and the currency value on display is kgToInr of *)
(* that breakdown's totalKg at the current carbon price.                   *)
C15_Fresh ==
  /\ results = Results(variant, form, defaults)
  /\ DisplayedInr = kgToInr(variant, defaults, Results(variant, form, defaults).totalKg)

(* While a submission awaits its reply the carbon price was overridden and *)
(* the form edited: the breakdown differs from the one in the request      *)
C15_Witness ==
  /\ Len(pending) > 0
  /\ defaults.inrPerTonneCO2 # BuiltIn(variant).inrPerTonneCO2
  /\ pending[1].body.results # JsonResults(results)
  /\ results.dataKg # Zero

----------------------------------------------------------------------------
(* Properties of the formulas                                              *)

(* The response of the simple variant with the weekly streaming hours an   *)
(* extended response resolves to, and the simple configuration with the    *)
(* extended configuration's flat rate and data-transfer intensity          *)
MonthlyForm(f) ==
  With(With(InitialForm("simple"),
            "streamingAcademicHrsPerWeek",
            Num(AcademicHours(Text(f, "streamingAcademicHrsPerWeek")))),
       "streamingNonAcademicHrsPerWeek",
       Num(EntertainmentHours(Text(f, "streamingNonAcademicHrsPerWeek"))))

MonthlyConfig(d) ==
  [DEFAULTS EXCEPT !.gbPerStreamingHour = d.gbPerStreamingHour.default,
                   !.kgCO2PerGB = d.kgCO2PerGB]

(* An extended response computed without error whose data is streaming only *)
StreamingOnly ==
  /\ variant = "extended"
  /\ Computed
  /\ CloudHours(Text(form, "cloudHoursPerWeek")) = Zero
  /\ OrZero(Number(form["largeTransfersPerMonth"])) = Zero

(* C16: for equal weekly streaming hours, rate and intensity the monthly   *)
(* annualization of the simple variants gives the same dataKg as the       *)
(* weekly annualization of the extended variant.                           *)
C16_SameAnnualization ==
  StreamingOnly =>
    /\ DataKgRaw("simple", MonthlyForm(form), MonthlyConfig(defaults))
         = DataKgRaw("extended", form, defaults)
    /\ Results("simple", MonthlyForm(form), MonthlyConfig(defaults)).dataKg = results.dataKg

(* C16, as it holds: the monthly annualization gives 52.14 / 52 times the  *)
(* dataKg of the weekly annualization (4.345 x 12 = 52.14 weeks a year),   *)
(* so the two agree only where they are zero.                              *)
C16_AnnualizationRatio ==
  StreamingOnly =>
    LET monthly == DataKgRaw("simple", MonthlyForm(form), MonthlyConfig(defaults))
        weekly == DataKgRaw("extended", form, defaults)
    IN /\ Mul(Whole(5200), monthly) = Mul(Whole(5214), weekly)
       /\ (monthly = weekly) <=> (weekly = Zero)

(* Ten academic hours a week: 625.68 GB a year by months, 624 GB by weeks  *)
C16_Witness ==
  /\ StreamingOnly
  /\ form["streamingAcademicHrsPerWeek"] = Str(AcademicOptions[3])
  /\ form["streamingNonAcademicHrsPerWeek"] = Str("")
  /\ DataKgRaw("extended", form, defaults) = Mul(Whole(624), defaults.kgCO2PerGB)
  /\ DataKgRaw("simple", MonthlyForm(form), MonthlyConfig(defaults))
       = Mul(Rat(62568, 100), defaults.kgCO2PerGB)

(* The device categories of a response with a positive count and positive  *)
(* daily hours                                                              *)
InUse(f) ==
  {i \in 1..Len(DeviceData) :
     /\ Positive(OrZero(Number(Get(f, DeviceData[i].count))))
     /\ Positive(OrZero(Number(Get(f, DeviceData[i].duration))))}

(* count x devicePowerW x dailyHours x 365 / 1000 x gridIntensity *)
CategoryKg(f, d, i) ==
  LET e == DeviceData[i]
      watts == IF e.type \in DOMAIN d.devicePowerW THEN d.devicePowerW[e.type] ELSE 0
  IN Mul(Div(Mul(Mul(Mul(OrZero(Number(Get(f, e.count))), Whole(watts)),
                     OrZero(Number(Get(f, e.duration)))), Whole(365)), 1000),
         d.gridKgCO2PerKWh)

RECURSIVE SumOver(_, _, _)
SumOver(f, d, categories) ==
  IF categories = {} THEN Zero
  ELSE LET i == CHOOSE c \in categories : TRUE
       IN Add(CategoryKg(f, d, i), SumOver(f, d, categories \ {i}))

(* The configuration without the power draw of one device type *)
WithoutPower(d, type) ==
  [d EXCEPT !.devicePowerW = [t \in DOMAIN d.devicePowerW \ {type} |-> d.devicePowerW[t]]]

C18_DataFormula ==
  (variant = "extended" /\ Computed) =>
    LET academicMidpoint == AcademicHours(Text(form, "streamingAcademicHrsPerWeek"))
        entertainmentMidpoint == EntertainmentHours(Text(form, "streamingNonAcademicHrsPerWeek"))
        cloudMidpoint == CloudHours(Text(form, "cloudHoursPerWeek"))
        transfers == OrZero(Number(form["largeTransfersPerMonth"]))
        flatRate == Rat(12, 10)
        weeklyGB == Add(Mul(Add(academicMidpoint, entertainmentMidpoint), flatRate),
                        Div(cloudMidpoint, 2))
        annualGB == Add(Mul(Whole(52), weeklyGB), Mul(Whole(12), transfers))
    IN /\ defaults.gbPerStreamingHour.default = flatRate
       /\ DataKgRaw(variant, form, defaults) = Mul(defaults.kgCO2PerGB, annualGB)
       /\ results.dataKg = round(Mul(defaults.kgCO2PerGB, annualGB))

(* Academic 6-15 hours and entertainment 11-25 hours a week, no cloud and  *)
(* no bulk transfer: 1747.2 GB a year, 113.57 kg                           *)
C18_Witness ==
  /\ variant = "extended"
  /\ Computed
  /\ form["streamingAcademicHrsPerWeek"] = Str(AcademicOptions[3])
  /\ form["streamingNonAcademicHrsPerWeek"] = Str(EntertainmentOptions[3])
  /\ CloudHours(Text(form, "cloudHoursPerWeek")) = Zero
  /\ OrZero(Number(form["largeTransfersPerMonth"])) = Zero
  /\ defaults.kgCO2PerGB = Rat(65, 1000)
  /\ DataKgRaw(variant, form, defaults) = Rat(113568, 1000)
  /\ results.dataKg = Rat(11357, 100)

(* The per-query factor of every option of the AI usage select, in the     *)
(* order of the options; 0.0005 without an answer                          *)
TypeMultipliers ==
  <<Rat(1, 10000), Rat(2, 100), Rat(2, 10000), Rat(1, 10000), Rat(5, 1000),
    Rat(5, 10000), Rat(5, 10000)>>

TypeMultiplierOf(text) ==
  IF \E i \in 1..Len(AiUsageOptions) : AiUsageOptions[i] = text
  THEN TypeMultipliers[CHOOSE i \in 1..Len(AiUsageOptions) : AiUsageOptions[i] = text]
  ELSE Rat(5, 10000)

ZeroAnswers == {Str(""), Str("sometimes"), Str(AiInteractionOptions[1])}

(* C20: in the extended variant aiKg is 0 whenever the AI interactions a   *)
(* day or the AI session length resolve to 0, whatever the usage type.     *)
C20_NoAiIsZero ==
  (variant = "extended" /\ Computed) =>
    /\ ( \/ AiInteractionsDaily(Text(form, "aiInteractionsPerDay")) = Zero
         \/ SessionMinutes(Text(form, "typicalAiSessionMinutes")) = Zero )
         => /\ AiKgRaw(variant, form, defaults) = Zero
            /\ results.aiKg = Zero
    /\ \A z \in ZeroAnswers :
         /\ Results(variant, With(form, "aiInteractionsPerDay", z), defaults).aiKg = Zero
         /\ Results(variant, With(form, "typicalAiSessionMinutes", z), defaults).aiKg = Zero

(* One to five interactions a day with other AI tools, which have the      *)
(* default factor, and no answer on the session length                     *)
C20_Witness ==
  /\ variant = "extended"
  /\ Computed
  /\ form["aiInteractionsPerDay"] = Str(AiInteractionOptions[2])
  /\ form["typicalAiSessionMinutes"] = Str("")
  /\ form["aiUsageTypes"] = Str(AiUsageOptions[6])
  /\ AiTypeMultiplier(Text(form, "aiUsageTypes"), defaults) = Rat(5, 10000)
  /\ results.aiKg = Zero

----------------------------------------------------------------------------
(* Properties of the conversions                                           *)

(* x rounded to two decimals: the whole number of hundredths h with        *)
(* h <= 100 x + 1/2 < h + 1                                                *)
IsRounded(r, x) ==
  /\ (r.n * 100) % r.d = 0
  /\ Leq(r, Add(x, Rat(1, 200)))
  /\ Less(Sub(x, Rat(1, 200)), r)

socialCostMultiplier(v) == IF v = "extended" THEN Rat(15, 10) ELSE Whole(1)

(* C21: kgToInr(kg) is (kg / 1000) x carbon price x social-cost multiplier *)
(* rounded to two decimals, the multiplier being 1.5 in the extended       *)
(* variant and 1 in the others; a kg or a price that is no number counts   *)
(* as 0 and gives 0.                                                       *)
C21_Conversion ==
  Computed =>
    LET value == Mul(Mul(Div(results.totalKg, 1000), defaults.inrPerTonneCO2),
                     socialCostMultiplier(variant))
    IN /\ IsRounded(kgToInr(variant, defaults, results.totalKg), value)
       /\ DisplayedInr = kgToInr(variant, defaults, results.totalKg)
       /\ kgToInr(variant, defaults, NaN) = Zero
       /\ kgToInr(variant, [defaults EXCEPT !.inrPerTonneCO2 = NaN], results.totalKg) = Zero

(* A total of the extended variant whose value at the price of 3000 a      *)
(* tonne is at least one hundredth: with the social cost it is half as     *)
(* much again                                                              *)
C21_Witness ==
  /\ Computed
  /\ variant = "extended"
  /\ defaults.inrPerTonneCO2 = Whole(3000)
  /\ Leq(Rat(1, 100), Mul(Div(results.totalKg, 1000), Whole(3000)))
  /\ DisplayedInr = round(Mul(Mul(results.totalKg, Whole(3)), Rat(15, 10)))

(* The multipliers of the options of the two selects, in the order of the  *)
(* option lists                                                            *)
PowerSourceMultipliers == <<Whole(1), Rat(9, 10), Rat(7, 10), Rat(4, 10), Rat(2, 10), Rat(8, 10)>>
ChargingMultipliers == <<Rat(11, 10), Whole(1), Rat(12, 10), Rat(13, 10), Rat(8, 10)>>

Lookup(options, multipliers, v, other) ==
  IF \E i \in 1..Len(options) : v = Str(options[i])
  THEN multipliers[CHOOSE i \in 1..Len(options) : v = Str(options[i])]
  ELSE other

(* The response with one device of category i used four hours a day and    *)
(* the two answers of f on power source and charging                       *)
OneDevice(v, f, i) ==
  With(With(With(With(InitialForm(v), DeviceData[i].count, Str("1")),
                 DeviceData[i].duration, Str("4")),
            "renewableEnergyUsage", f["renewableEnergyUsage"]),
       "chargingHabits", f["chargingHabits"])

(* C22: in the multiplier and the extended variant the power-source        *)
(* multiplier is 1.0, 0.9, 0.7, 0.4, 0.2 for the five percentage bands,    *)
(* matched by the whole label, and 0.8 for any other value; the charging   *)
(* multiplier is 1.3, 1.1, 1.0, 1.2, 0.8 for the five habits and 1.0 for   *)
(* any other value; every device category is multiplied by both.           *)
C22_Multipliers ==
  (variant # "simple" /\ Computed) =>
    LET powerSource == Lookup(RenewableOptions, PowerSourceMultipliers,
                              form["renewableEnergyUsage"], Rat(8, 10))
        charging == Lookup(ChargingOptions, ChargingMultipliers, form["chargingHabits"], Whole(1))
    IN /\ getPowerSourceMultiplier(form) = powerSource
       /\ getChargingMultiplier(form) = charging
       /\ getPowerSourceMultiplier(With(form, "renewableEnergyUsage", Str("26-50%"))) = Rat(8, 10)
       /\ getPowerSourceMultiplier(With(form, "renewableEnergyUsage", Undefined)) = Rat(8, 10)
       /\ getChargingMultiplier(With(form, "chargingHabits", Str("Always"))) = Whole(1)
       /\ getChargingMultiplier(With(form, "chargingHabits", Undefined)) = Whole(1)
       /\ \A i \in 1..Len(DeviceData) :
            DeviceKgRaw(variant, OneDevice(variant, form, i), defaults)
              = Mul(Mul(CategoryKg(OneDevice(variant, form, i), defaults, i), powerSource),
                    charging)

(* A device always kept plugged in, in a home that does not know its share *)
(* of renewable energy: 1.3 x 0.8 of the base emissions                    *)
C22_Witness ==
  /\ variant # "simple"
  /\ Computed
  /\ form["renewableEnergyUsage"] = Str(RenewableOptions[6])
  /\ form["chargingHabits"] = Str(ChargingOptions[4])
  /\ InUse(form) = {1}
  /\ DeviceKgRaw(variant, form, defaults)
       = Mul(CategoryKg(form, defaults, 1), Rat(104, 100))

IsSpace(c) == c = " "

(* t is s without the white space at its two ends *)
IsTrimOf(t, s) ==
  \E i \in 1..(Len(s) + 1) : \E j \in 0..Len(s) :
    /\ t = SubSeq(s, i, j)
    /\ \A k \in 1..(i - 1) : IsSpace(CharAt(s, k))
    /\ \A k \in (j + 1)..Len(s) : IsSpace(CharAt(s, k))
    /\ Len(t) > 0 => ~IsSpace(CharAt(t, 1)) /\ ~IsSpace(CharAt(t, Len(t)))

(* The city and state line of a file: both trimmed answers joined by a     *)
(* comma and a space, the one that is not empty, or nothing                *)
IsCityStateOf(line, f) ==
  \E c \in {Trim(Text(f, "city"))} : \E s \in {Trim(Text(f, "state"))} :
    /\ IsTrimOf(c, Text(f, "city"))
    /\ IsTrimOf(s, Text(f, "state"))
    /\ line = CASE c # "" /\ s # "" -> c \o ", " \o s
                [] c # "" /\ s = "" -> c
                [] c = "" /\ s # "" -> s
                [] OTHER -> ""

StartsOrEndsWithComma(text) ==
  Len(text) > 0 /\ (CharAt(text, 1) = "," \/ CharAt(text, Len(text)) = ",")

(* C23: the exported cityState is '<city>, <state>' when both trimmed      *)
(* answers are non-empty, the one that is non-empty otherwise, and empty   *)
(* when neither is; it never begins or ends with a comma.                  *)
C23_NoDanglingComma ==
  exported.done =>
    /\ IsCityStateOf(exported.cityState, form)
    /\ ~StartsOrEndsWithComma(exported.cityState)

(* C23, as it holds: the exported cityState is '<city>, <state>' when both *)
(* trimmed answers are non-empty, the one that is non-empty otherwise, and *)
(* empty when neither is (absent and blank answers are empty); it begins   *)
(* or ends with a comma only if the trimmed city begins with one or the    *)
(* last non-empty trimmed answer ends with one.                            *)
C23_CityState ==
  exported.done =>
    /\ IsCityStateOf(exported.cityState, form)
    /\ getCityState(With(form, "city", Undefined)) = Trim(Text(form, "state"))
    /\ getCityState(With(form, "state", Undefined)) = Trim(Text(form, "city"))
    /\ getCityState(With(form, "state", Str("  "))) = Trim(Text(form, "city"))
    /\ StartsOrEndsWithComma(exported.cityState)
         => \/ StartsOrEndsWithComma(Trim(Text(form, "city")))
            \/ StartsOrEndsWithComma(Trim(Text(form, "state")))

(* A file for a city typed with spaces around it and a selected state *)
C23_Witness ==
  /\ exported.done
  /\ form["city"] = Str(" Pune ")
  /\ form["state"] = Str("Goa")
  /\ exported.cityState = "Pune, Goa"

(* A file for a city typed with a comma after it and no state selected *)
C23_TypedComma ==
  /\ exported.done
  /\ form["city"] = Str("Pune,")
  /\ form["state"] = Str("")
  /\ exported.cityState = "Pune,"

----------------------------------------------------------------------------
(* Properties of the submissions                                           *)

(* C24: no request is issued for a submission started while consent is     *)
(* false: every request in flight was sent to a non-empty webhook URL by a *)
(* handleSubmit that saw consent = true, which the form in its body shows, *)
(* and a step that adds a request is such a handleSubmit.                  *)
C24_NoPostWithoutConsent ==
  [][/\ \A i \in 1..Len(pending') :
          /\ pending'[i].body.form["consent"] = Bool(TRUE)
          /\ Len(pending'[i].url) > 0
     /\ Len(pending') > Len(pending)
          => /\ Truthy(form["consent"])
             /\ Len(webhookUrl) > 0
             /\ pending' = Append(pending, [url |-> webhookUrl, body |-> Payload(form, results)])
     /\ ~Truthy(form["consent"]) => Len(pending') <= Len(pending)]_vars

(* A request is in flight; consent was withdrawn after it was sent and a   *)
(* further click was answered with the consent message, not with a request *)
C24_Witness ==
  /\ Len(pending) = 1
  /\ form["consent"] = Bool(FALSE)
  /\ message = ConsentMessage
  /\ pending[1].body.form["consent"] = Bool(TRUE)

(* C25: when consented submissions overlap, the message on display once    *)
(* all of them have completed is the outcome, success or failure, of the   *)
(* submission started last, in whatever order the replies arrived.         *)
C25_LatestWins ==
  (/\ pending = <<>>
   /\ lastOutcome \in {"success", "failure"}
   /\ message \in {SuccessMessage(variant), FailureMessage})
    => (message = SuccessMessage(variant) <=> lastOutcome = "success")

(* Two submissions overlapped; the one started last succeeded first, the   *)
(* earlier one failed afterwards, and the failure message is on display    *)
C25_EarlierFailureShown ==
  /\ pending = <<>>
  /\ lastOutcome = "success"
  /\ message = FailureMessage
  /\ form["consent"] = Bool(TRUE)
  /\ Len(webhookUrl) > 0

(* The participantIds of the payloads in existence: those of the requests  *)
(* in flight and that of the file just downloaded                          *)
RequestIds == {pending[i].body.participantId : i \in 1..Len(pending)}

(* C30: any two payloads produced by downloadJSON or handleSubmit in one   *)
(* session carry distinct participantIds, however the millisecond clock    *)
(* advances, and the name of an exported file is 'survey_', the            *)
(* participantId stored in the file, '.json'.                              *)
C30_DistinctIds ==
  /\ \A i, j \in 1..Len(pending) :
       i # j => pending[i].body.participantId # pending[j].body.participantId
  /\ exported.done =>
       /\ exported.participantId \notin RequestIds
       /\ exported.filename = "survey_" \o exported.participantId \o ".json"

(* A submission and a download in the same millisecond: the request in     *)
(* flight and the file carry the same participantId                        *)
C30_SameMillisecond ==
  /\ exported.done
  /\ Len(pending) = 1
  /\ exported.participantId = pending[1].body.participantId
  /\ exported.timestamp = now
  /\ exported.filename = "survey_" \o exported.participantId \o ".json"

(* C26: every payload sent or exported is a snapshot: its results are the  *)
(* engine's breakdown of the form in the same payload under the            *)
(* configuration in force at the click, and no edit or override made       *)
(* while a request is pending changes the payload of that request.         *)
C26_Snapshot ==
  [][/\ Len(pending') > Len(pending) =>
          LET body == pending'[Len(pending')].body
          IN /\ SubSeq(pending', 1, Len(pending)) = pending
             /\ body.form = JsonForm(form)
             /\ body.results = JsonResults(Results(variant, body.form, defaults))
     /\ Len(pending') = Len(pending) => pending' = pending
     /\ Len(pending') < Len(pending) => \E i \in 1..Len(pending) : pending' = Remove(pending, i)
     /\ (exported'.done /\ exported' # exported) =>
          /\ exported'.form = JsonForm(form)
          /\ exported'.results = JsonResults(Results(variant, exported'.form, defaults))]_vars

(* A request is in flight; since its click the form was edited and a       *)
(* factor overridden, and its payload still holds the form of the click    *)
(* and the breakdown of that form under the factors of the click           *)
C26_Witness ==
  /\ Len(pending) = 1
  /\ pending[1].body.form # JsonForm(form)
  /\ defaults # BuiltIn(variant)
  /\ pending[1].body.results
       = JsonResults(Results(variant, pending[1].body.form, BuiltIn(variant)))
  /\ pending[1].body.results # JsonResults(Results(variant, form, defaults))
  /\ pending[1].body.results # JsonResults(Results(variant, pending[1].body.form, defaults))

----------------------------------------------------------------------------
(* Properties of the breakdown                                             *)

DemographicFields ==
  { "age", "gender", "occupation", "customOccupation", "schooling", "city", "state",
    "cityTier", "accommodation", "familyIncomeRange", "primaryConnection" }

DeviceAgeFields ==
  { "smartphoneAge", "laptopAge", "tabletAge", "desktopAge", "smartTVAge", "otherDevicesAge",
    "gamingConsoleAge", "streamingDeviceAge", "smartHomeDevicesAge", "routerAge" }

(* The fields of the form the breakdown is said not to depend on *)
FieldsNotRead(v) ==
  (DemographicFields
     \cup {"avgDailyInternetHours", "totalDevices", "aiTypes", "accessRenewableAtHome",
           "estimatedAnnualKgCO2", "consent"}
     \cup DeviceAgeFields
     \cup {"powerSource", "solarPanels", "energyEfficientAppliances"}
     \cup QuizFields
     \cup (IF v = "extended" THEN {} ELSE {"cloudHoursPerWeek", "aiUsageTypes"}))
    \cap DOMAIN InitialForm(v)

OtherAnswers == {Str("7"), Str(AiUsageOptions[2]), Bool(TRUE)}

(* The fields among them that hold a quantity or a usage *)
QuantityFields(v) ==
  FieldsNotRead(v)
    \cap {"avgDailyInternetHours", "totalDevices", "estimatedAnnualKgCO2", "aiTypes",
          "cloudHoursPerWeek", "aiUsageTypes", "consent"}

(* C27: the breakdown does not depend on the fields the engine does not    *)
(* read: forms that differ in those fields only, in all of them or in one  *)
(* that holds a quantity, have the same breakdown.                         *)
C27_FieldsNotRead ==
  /\ results = Results(variant, form, defaults)
  /\ \A name \in QuantityFields(variant) :
       Results(variant, With(form, name, Str("7")), defaults) = results
  /\ \A v \in OtherAnswers :
       Results(variant,
               [name \in DOMAIN form |->
                  IF name \in FieldsNotRead(variant) THEN v ELSE form[name]],
               defaults) = results

(* A response with a city, consent and a breakdown that is not zero, the   *)
(* same as that of the response without city and consent                   *)
C27_Witness ==
  /\ form["city"] = Str("Pune")
  /\ form["consent"] = Bool(TRUE)
  /\ Computed
  /\ results.totalKg # Zero
  /\ results = Results(variant, With(With(form, "city", Str("")), "consent", Bool(FALSE)),
                       defaults)

(* totalKg less the sum of the three components, as displayed *)
TotalGap == Sub(results.totalKg, Add(Add(results.deviceKg, results.dataKg), results.aiKg))

(* C28: the displayed totalKg differs from the sum of the displayed        *)
(* deviceKg, dataKg and aiKg by at most 0.01 in absolute value.            *)
C28_TotalNearSum ==
  Computed =>
    /\ Leq(TotalGap, Rat(1, 100))
    /\ Leq(Rat(-1, 100), TotalGap)

(* A breakdown of three components that are not zero whose total is one    *)
(* hundredth away from their sum                                           *)
C28_Witness ==
  /\ Computed
  /\ TotalGap \in {Rat(1, 100), Rat(-1, 100)}
  /\ results.deviceKg # Zero
  /\ results.dataKg # Zero
  /\ results.aiKg # Zero

(* The range selects of the extended variant with their option lists *)
RangeSelects ==
  { <<"streamingAcademicHrsPerWeek", AcademicOptions>>,
    <<"streamingNonAcademicHrsPerWeek", EntertainmentOptions>>,
    <<"cloudHoursPerWeek", CloudOptions>>,
    <<"aiInteractionsPerDay", AiInteractionOptions>>,
    <<"typicalAiSessionMinutes", AiSessionOptions>> }

(* C29: in the extended variant, replacing the chosen option of a range    *)
(* select by a later option of its list, all other answers fixed, never    *)
(* decreases the unrounded dataKg or aiKg, nor totalKg.                    *)
C29_LaterOptionNotLess ==
  (variant = "extended" /\ Computed) =>
    \A select \in RangeSelects :
      \A i \in 1..Len(select[2]) : \A j \in (i + 1)..Len(select[2]) :
        form[select[1]] = Str(select[2][i]) =>
          LET later == With(form, select[1], Str(select[2][j]))
          IN /\ Leq(DataKgRaw(variant, form, defaults), DataKgRaw(variant, later, defaults))
             /\ Leq(AiKgRaw(variant, form, defaults), AiKgRaw(variant, later, defaults))
             /\ Leq(results.totalKg, Results(variant, later, defaults).totalKg)

(* 16-30 hours of academic streaming a week: 1435.2 GB a year; with the    *)
(* next option, 31-50 hours, the engine counts 187.2 GB                    *)
C29_HeavierCountsLess ==
  /\ variant = "extended"
  /\ Computed
  /\ form["streamingAcademicHrsPerWeek"] = Str(AcademicOptions[4])
  /\ form["streamingNonAcademicHrsPerWeek"] = Str("")
  /\ DataKgRaw(variant, form, defaults) = Mul(Rat(14352, 10), defaults.kgCO2PerGB)
  /\ DataKgRaw(variant, With(form, "streamingAcademicHrsPerWeek", Str(AcademicOptions[5])),
               defaults) = Mul(Rat(1872, 10), defaults.kgCO2PerGB)
  /\ results.dataKg = Rat(9329, 100)
  /\ Results(variant, With(form, "streamingAcademicHrsPerWeek", Str(AcademicOptions[5])),
             defaults).dataKg = Rat(1217, 100)

====
